---------------------------- MODULE Spec2Model ----------------------------
(***************************************************************************)
(* NBA Games Dashboard (src/main.py): the statistics queries served over   *)
(* the game table that load_data() builds once, when the module is         *)
(* imported.                                                               *)
(*                                                                         *)
(* The file games1946-2025.csv is the input: a sequence of rows.  A        *)
(* Winner cell that is empty in the file is pandas' NaN and is written ""  *)
(* here.  A datetime cell is written as the triple <<year, month, day>>    *)
(* of its text; a text that is no calendar date is a triple that is none.  *)
(* A float is a record [nan, m, e]: NaN, or the double m * 2^e.            *)
(* Every handler is an "async def" without an await: it runs to its end    *)
(* on the event loop once started, so it is one action; the requests that  *)
(* were accepted and not served yet are the set pending.  The response of  *)
(* a handler is the context it hands to the template.                      *)
(* The page handler home() serves no statistics and is left out.           *)
(*                                                                         *)
(* Floats are IEEE-754 doubles: every division, product and sum rounds to  *)
(* 53 significant bits, and f"{x:.1f}" rounds the double that results, not *)
(* the quotient it stands for, to the nearest tenth.                       *)
(***************************************************************************)
EXTENDS Integers, Sequences, FiniteSets, TLC

VARIABLES csv, df, pending, resp

vars == <<csv, df, pending, resp>>

-----------------------------------------------------------------------------
(* Bounds of the model *)

\* longest exhaustively enumerated file
MaxRows == 2
\* most requests accepted and not yet served
MaxInFlight == 2
\* most teams of a generated league file
MaxTeams == 17
\* most rows of a generated high-scoring file
MaxGames == 12
\* most seasons of a generated team-history file
MaxSeasons == 16

-----------------------------------------------------------------------------
(* Program constants *)

\* df = df[df["seasonStartYear"] >= 2000]
FirstSeason == 2000
\* value_counts().head(15)
TopTeams == 15
\* df.nlargest(10, "totalPoints")
TopGames == 10
\* seasons_data[-10:]
LastSeasons == 10

-----------------------------------------------------------------------------
(* Sequences and sets *)

Range(s) == {s[i] : i \in 1..Len(s)}

Min(S) == CHOOSE m \in S : \A y \in S : m <= y

Max(S) == CHOOSE m \in S : \A y \in S : m >= y

Max2(a, b) == IF a >= b THEN a ELSE b

RECURSIVE SumSeq(_)
SumSeq(s) == IF s = <<>> THEN 0 ELSE Head(s) + SumSeq(Tail(s))

\* sorted(S) of a set of integers
RECURSIVE Sorted(_)
Sorted(S) == IF S = {} THEN <<>> ELSE <<Min(S)>> \o Sorted(S \ {Min(S)})

\* s[:n]
Take(s, n) == SubSeq(s, 1, IF n < Len(s) THEN n ELSE Len(s))

\* LastN as s[:n]: the slice taken from the wrong end
LastNFromStart(s, n) == SubSeq(s, 1, IF n < Len(s) THEN n ELSE Len(s))

\* s[-n:]
LastN(s, n) == SubSeq(s, Max2(1, Len(s) - n + 1), Len(s))

\* the number of rows of s that satisfy Test
Count(s, Test(_)) == Cardinality({i \in 1..Len(s) : Test(s[i])})

\* every order of the elements of S
RECURSIVE Perms(_)
Perms(S) ==
    IF S = {} THEN {<<>>}
    ELSE UNION {{<<e>> \o p : p \in Perms(S \ {e})} : e \in S}

-----------------------------------------------------------------------------
(* Floats and their formatting *)

(* A float is an IEEE-754 double that is not negative: NaN, or m * 2^e     *)
(* with the significand m below 2^53 (2^53 itself after a carry).  m is a  *)
(* natural number in six limbs of 15 bits, lowest limb first; the          *)
(* integers the program divides and multiplies by are below 2^15.  Every   *)
(* operation rounds its exact result to 53 significant bits, to the        *)
(* nearest and a half to the even significand, as the hardware does.       *)

Base == 2^15

\* the natural number n < 2^30 in limbs
Nat2Limbs(n) == <<n % Base, n \div Base, 0, 0, 0, 0>>

\* the number a value below 2^30 in limbs stands for
Limbs2Nat(N) == N[1] + N[2] * Base

IsZero(N) == \A i \in 1..6 : N[i] = 0

\* N * k
MulSmall(N, k) ==
    LET t1 == N[1] * k
        t2 == N[2] * k + t1 \div Base
        t3 == N[3] * k + t2 \div Base
        t4 == N[4] * k + t3 \div Base
        t5 == N[5] * k + t4 \div Base
        t6 == N[6] * k + t5 \div Base
    IN  <<t1 % Base, t2 % Base, t3 % Base, t4 % Base, t5 % Base, t6 % Base>>

\* quotient and remainder of N by d
DivSmall(N, d) ==
    LET t6 == N[6]
        t5 == (t6 % d) * Base + N[5]
        t4 == (t5 % d) * Base + N[4]
        t3 == (t4 % d) * Base + N[3]
        t2 == (t3 % d) * Base + N[2]
        t1 == (t2 % d) * Base + N[1]
    IN  [q |-> <<t1 \div d, t2 \div d, t3 \div d, t4 \div d, t5 \div d, t6 \div d>>,
         r |-> t1 % d]

\* X + Y
AddLimbs(X, Y) ==
    LET t1 == X[1] + Y[1]
        t2 == X[2] + Y[2] + t1 \div Base
        t3 == X[3] + Y[3] + t2 \div Base
        t4 == X[4] + Y[4] + t3 \div Base
        t5 == X[5] + Y[5] + t4 \div Base
        t6 == X[6] + Y[6] + t5 \div Base
    IN  <<t1 % Base, t2 % Base, t3 % Base, t4 % Base, t5 % Base, t6 % Base>>

\* the number of bits of v < 2^15
BitLenSmall(v) == Cardinality({j \in 0..14 : 2^j <= v})

\* the number of bits of N
BitLen(N) ==
    IF IsZero(N) THEN 0
    ELSE LET top == Max({i \in 1..6 : N[i] # 0})
         IN  15 * (top - 1) + BitLenSmall(N[top])

\* N * 2^s: by the bits of s below a limb, then by whole limbs
ShiftLeft(N, s) ==
    LET a == s \div 15
        M == MulSmall(N, 2^(s % 15))
    IN  [i \in 1..6 |-> IF i > a THEN M[i - a] ELSE 0]

\* N \div 2^s, and whether a bit that is set was shifted out
ShiftRight(N, s) ==
    LET a  == s \div 15
        M  == [i \in 1..6 |-> IF i + a <= 6 THEN N[i + a] ELSE 0]
        dv == DivSmall(M, 2^(s % 15))
    IN  [q      |-> dv.q,
         sticky |-> dv.r # 0 \/ \E i \in 1..6 : i <= a /\ N[i] # 0]

\* (N + fraction) \div 2^s rounded to the nearest integer, a half to the
\* even one; inexact says that a fraction below N's last bit is left out
RoundShift(N, s, inexact) ==
    LET sh   == ShiftRight(N, s - 1)
        h    == DivSmall(sh.q, 2)
        up   == h.r = 1 /\ (sh.sticky \/ inexact \/ h.q[1] % 2 = 1)
    IN  IF up THEN AddLimbs(h.q, Nat2Limbs(1)) ELSE h.q

NaN == [nan |-> TRUE, m |-> Nat2Limbs(0), e |-> 0]

\* float(n) of an integer 0 <= n < 2^30
Float(n) == [nan |-> FALSE, m |-> Nat2Limbs(n), e |-> 0]

\* the double nearest to (N + fraction) * 2^e
RoundDouble(N, e, inexact) ==
    LET b == BitLen(N)
    IN  IF b <= 53 THEN [nan |-> FALSE, m |-> N, e |-> e]
        ELSE [nan |-> FALSE, m |-> RoundShift(N, b - 53, inexact), e |-> e + (b - 53)]

\* the double nearest to N * 2^e / d: the quotient is taken to 55 bits or
\* more, so that the remainder only says whether it is exact
DivDouble(N, e, d) ==
    IF IsZero(N) THEN Float(0)
    ELSE LET t  == Max2(0, 55 + BitLenSmall(d) - BitLen(N))
             dv == DivSmall(ShiftLeft(N, t), d)
         IN  RoundDouble(dv.q, e - t, dv.r # 0)

\* numpy's x / y of two integers that are not negative: 0 / 0 is nan (with
\* a warning, no exception); the program divides no positive count by 0
IntDiv(n, d) == IF d = 0 THEN NaN ELSE DivDouble(Nat2Limbs(n), 0, d)

\* x * k of a float and an integer
FMul(x, k) == IF x.nan THEN NaN ELSE RoundDouble(MulSmall(x.m, k), x.e, FALSE)

\* x + y
FAdd(x, y) ==
    IF x.nan \/ y.nan THEN NaN
    ELSE IF IsZero(x.m) THEN y
    ELSE IF IsZero(y.m) THEN x
    ELSE IF x.e >= y.e
         THEN RoundDouble(AddLimbs(ShiftLeft(x.m, x.e - y.e), y.m), y.e, FALSE)
         ELSE RoundDouble(AddLimbs(ShiftLeft(y.m, y.e - x.e), x.m), x.e, FALSE)

\* x / k of a float and a positive integer
FDiv(x, k) == IF x.nan THEN NaN ELSE DivDouble(x.m, x.e, k)

\* Series.mean(): NaN of no value, else the sum over the count
Mean(s) == IF Len(s) = 0 THEN NaN ELSE IntDiv(SumSeq(s), Len(s))

\* the double x in tenths, rounded to the nearest, a half to the even tenth
RoundTenths(x) ==
    LET N == MulSmall(x.m, 10)
    IN  IF x.e >= 0 THEN Limbs2Nat(ShiftLeft(N, x.e))
        ELSE Limbs2Nat(RoundShift(N, 0 - x.e, FALSE))

\* t tenths written with one decimal
Tenths(t) == ToString(t \div 10) \o "." \o ToString(t % 10)

\* f"{x:.1f}" of a float that is not negative
Fmt1(x) == IF x.nan THEN "nan" ELSE Tenths(RoundTenths(x))

Pad(n, w) ==
    IF w = 3 /\ n < 10 THEN "00" \o ToString(n)
    ELSE IF (w = 3 /\ n < 100) \/ (w = 2 /\ n < 10) THEN "0" \o ToString(n)
    ELSE ToString(n)

\* f"{n:,}"
RECURSIVE Commas(_)
Commas(n) ==
    IF n < 1000 THEN ToString(n)
    ELSE Commas(n \div 1000) \o "," \o Pad(n % 1000, 3)

-----------------------------------------------------------------------------
(* Dates *)

NaT == [nat |-> TRUE, y |-> 0, m |-> 0, d |-> 0]

DaysIn(y, m) ==
    IF m \in {4, 6, 9, 11} THEN 30
    ELSE IF m # 2 THEN 31
    ELSE IF y % 4 = 0 /\ (y % 100 # 0 \/ y % 400 = 0) THEN 29 ELSE 28

\* pd.to_datetime(text, errors="coerce") of one cell
ToDatetime(t) ==
    IF t[2] \in 1..12 /\ t[3] >= 1 /\ t[3] <= DaysIn(t[1], t[2])
    THEN [nat |-> FALSE, y |-> t[1], m |-> t[2], d |-> t[3]]
    ELSE NaT

\* .dt.strftime("%Y-%m-%d") of one cell
Strftime(ts) ==
    IF ts.nat THEN "nan"
    ELSE ToString(ts.y) \o "-" \o Pad(ts.m, 2) \o "-" \o Pad(ts.d, 2)

-----------------------------------------------------------------------------
(* The game table *)

LoadRow(r) ==
    [game_id         |-> r.game_id,
     datetime        |-> ToDatetime(r.datetime),
     seasonStartYear |-> r.seasonStartYear,
     homeTeam        |-> r.homeTeam,
     awayTeam        |-> r.awayTeam,
     pointsHome      |-> r.pointsHome,
     pointsAway      |-> r.pointsAway,
     Winner          |-> r.Winner,
     isRegular       |-> r.isRegular,
     totalPoints     |-> r.pointsHome + r.pointsAway]

From2000(r) == r.seasonStartYear >= FirstSeason

\* load_data()
LoadData(file) ==
    LET kept == SelectSeq(file, From2000)
    IN  [i \in 1..Len(kept) |-> LoadRow(kept[i])]

Col(d, c) == [i \in 1..Len(d) |-> d[i][c]]

HomeWon(r) == r.pointsHome > r.pointsAway

AwayWon(r) == r.pointsAway > r.pointsHome

\* sorted(df["seasonStartYear"].unique())
SeasonsOf(d) == Sorted(Range(Col(d, "seasonStartYear")))


-----------------------------------------------------------------------------
(* /api/stats/overview *)

Overview(d) ==
    LET total_games == Len(d)
        home_wins   == Count(d, HomeWon)
    IN  [total_games     |-> Commas(total_games),
         avg_home_points |-> Fmt1(Mean(Col(d, "pointsHome"))),
         avg_away_points |-> Fmt1(Mean(Col(d, "pointsAway"))),
         home_win_rate   |-> Fmt1(FMul(IntDiv(home_wins, total_games), 100))]

-----------------------------------------------------------------------------
(* /api/stats/season-trend *)

InSeason(d, s) == LET Is(r) == r.seasonStartYear = s IN SelectSeq(d, Is)

SeasonRow(d, s) ==
    LET g == InSeason(d, s)
    IN  [season    |-> s,
         avg_home  |-> Mean(Col(g, "pointsHome")),
         avg_away  |-> Mean(Col(g, "pointsAway")),
         avg_total |-> Mean(Col(g, "totalPoints")),
         games     |-> Len(g)]

\* groupby("seasonStartYear") lists its groups by ascending key
SeasonTrend(d) ==
    LET keys == SeasonsOf(d)
    IN  [seasons |-> [i \in 1..Len(keys) |-> SeasonRow(d, keys[i])]]

-----------------------------------------------------------------------------
(* /api/stats/team-rankings *)

\* "if season:" of an Optional[int]: <<>> is None, <<v>> is the integer v
Truthy(season) == season # <<>> /\ season[1] # 0

Restrict(d, season) ==
    IF Truthy(season) THEN InSeason(d, season[1]) ELSE d

HomeGames(d, team) == LET Is(r) == r.homeTeam = team IN SelectSeq(d, Is)

AwayGames(d, team) == LET Is(r) == r.awayTeam = team IN SelectSeq(d, Is)

\* the counts of value_counts(): NaN is dropped
WinCounts(data) ==
    LET teams == Range(Col(data, "Winner")) \ {""}
    IN  [t \in teams |->
            LET Won(r) == r.Winner = t IN Count(data, Won)]

\* value_counts() sorts the counts downwards with a sort that is not stable:
\* teams of equal count come in any order
RECURSIVE CountOrders(_)
CountOrders(c) ==
    IF DOMAIN c = {} THEN {<<>>}
    ELSE LET top  == Max({c[t] : t \in DOMAIN c})
             tied == {t \in DOMAIN c : c[t] = top}
             rest == [t \in DOMAIN c \ tied |-> c[t]]
         IN  {p \o q : p \in Perms(tied), q \in CountOrders(rest)}

ValueCountsOrders(data) == CountOrders(WinCounts(data))

RankingRow(data, team, win_count) ==
    LET total    == Len(HomeGames(data, team)) + Len(AwayGames(data, team))
        win_rate == IF total > 0 THEN FMul(IntDiv(win_count, total), 100)
                    ELSE Float(0)
    IN  [team     |-> team,
         wins     |-> win_count,
         games    |-> total,
         win_rate |-> Fmt1(win_rate)]

\* TeamRankings without .head(15)
TeamRankingsUncut(d, season, order) ==
    LET data == Restrict(d, season)
        c    == WinCounts(data)
    IN  [rankings |-> [i \in 1..Len(order) |-> RankingRow(data, order[i], c[order[i]])],
         selected_season |-> season]

\* the handler, given the order value_counts() produced
TeamRankings(d, season, order) ==
    LET data == Restrict(d, season)
        wins == Take(order, TopTeams)
        c    == WinCounts(data)
    IN  [rankings |-> [i \in 1..Len(wins) |-> RankingRow(data, wins[i], c[wins[i]])],
         selected_season |-> season]

-----------------------------------------------------------------------------
(* /api/stats/high-scoring *)

Without(s, i) == SubSeq(s, 1, i - 1) \o SubSeq(s, i + 1, Len(s))

\* NLargest as df.head(n): the first rows of the frame, not the largest
NLargestAsHead(d, n) == SubSeq(d, 1, IF n < Len(d) THEN n ELSE Len(d))

\* DataFrame.nlargest(n, "totalPoints"), keep="first": of equal totals the
\* row that comes first in the frame is taken first
RECURSIVE NLargest(_, _)
NLargest(d, n) ==
    IF n = 0 \/ d = <<>> THEN <<>>
    ELSE LET top == Max(Range(Col(d, "totalPoints")))
             i   == Min({j \in 1..Len(d) : d[j].totalPoints = top})
         IN  <<d[i]>> \o NLargest(Without(d, i), n - 1)

GameRow(r) ==
    [date        |-> Strftime(r.datetime),
     home_team   |-> r.homeTeam,
     home_points |-> r.pointsHome,
     away_team   |-> r.awayTeam,
     away_points |-> r.pointsAway,
     total       |-> r.totalPoints,
     season      |-> r.seasonStartYear]

HighScoring(d) ==
    LET top_games == NLargest(d, TopGames)
    IN  [games |-> [i \in 1..Len(top_games) |-> GameRow(top_games[i])]]

-----------------------------------------------------------------------------
(* /api/stats/team-detail *)

DetailSeasonRow(team_home, team_away, s) ==
    LET season_home == InSeason(team_home, s)
        season_away == InSeason(team_away, s)
        wins  == Count(season_home, HomeWon) + Count(season_away, AwayWon)
        games == Len(season_home) + Len(season_away)
    IN  [season   |-> s,
         wins     |-> wins,
         games    |-> games,
         win_rate |-> Fmt1(FMul(IntDiv(wins, games), 100))]

\* the loop over sorted(df["seasonStartYear"].unique())
RECURSIVE SeasonsData(_, _, _)
SeasonsData(team_home, team_away, keys) ==
    IF keys = <<>> THEN <<>>
    ELSE LET row == DetailSeasonRow(team_home, team_away, Head(keys))
         IN  (IF row.games > 0 THEN <<row>> ELSE <<>>)
             \o SeasonsData(team_home, team_away, Tail(keys))

AvgPoints(team_home, team_away) ==
    LET total_games     == Len(team_home) + Len(team_away)
        avg_points_home == Mean(Col(team_home, "pointsHome"))
        avg_points_away == Mean(Col(team_away, "pointsAway"))
    IN  FDiv(FAdd(FMul(avg_points_home, Len(team_home)),
                  FMul(avg_points_away, Len(team_away))),
             Max2(total_games, 1))

TeamDetail(d, team) ==
    LET team_home   == HomeGames(d, team)
        team_away   == AwayGames(d, team)
        total_wins  == Count(team_home, HomeWon) + Count(team_away, AwayWon)
        total_games == Len(team_home) + Len(team_away)
    IN  [team        |-> team,
         total_wins  |-> total_wins,
         total_games |-> total_games,
         win_rate    |-> Fmt1(FMul(IntDiv(total_wins, Max2(total_games, 1)), 100)),
         avg_points  |-> Fmt1(AvgPoints(team_home, team_away)),
         seasons     |-> LastN(SeasonsData(team_home, team_away, SeasonsOf(d)),
                               LastSeasons)]

-----------------------------------------------------------------------------
(* /api/stats/playoffs-vs-regular *)

Regular(d) == LET Is(r) == r.isRegular = 1 IN SelectSeq(d, Is)

Playoffs(d) == LET Is(r) == r.isRegular = 0 IN SelectSeq(d, Is)

RegularStats(regular) ==
    [games         |-> Len(regular),
     avg_total     |-> Fmt1(Mean(Col(regular, "totalPoints"))),
     avg_home      |-> Fmt1(Mean(Col(regular, "pointsHome"))),
     avg_away      |-> Fmt1(Mean(Col(regular, "pointsAway"))),
     home_win_rate |-> Fmt1(FMul(IntDiv(Count(regular, HomeWon), Len(regular)), 100))]

PlayoffsStats(playoffs) ==
    [games         |-> Len(playoffs),
     avg_total     |-> Fmt1(Mean(Col(playoffs, "totalPoints"))),
     avg_home      |-> Fmt1(Mean(Col(playoffs, "pointsHome"))),
     avg_away      |-> Fmt1(Mean(Col(playoffs, "pointsAway"))),
     home_win_rate |-> Fmt1(FMul(IntDiv(Count(playoffs, HomeWon),
                                        Max2(Len(playoffs), 1)), 100))]

PlayoffsVsRegular(d) ==
    [stats |-> [regular  |-> RegularStats(Regular(d)),
                playoffs |-> PlayoffsStats(Playoffs(d))]]

-----------------------------------------------------------------------------
(* The files the model is run on.  The Winner column agrees with the      *)
(* points, and is empty for a game that ended level; no team plays itself. *)

WinnerOf(home, away, ph, pa) ==
    IF ph > pa THEN home ELSE IF pa > ph THEN away ELSE ""

Game(season, home, away, ph, pa, reg, date) ==
    [seasonStartYear |-> season, homeTeam |-> home, awayTeam |-> away,
     pointsHome |-> ph, pointsAway |-> pa, isRegular |-> reg,
     Winner |-> WinnerOf(home, away, ph, pa), datetime |-> date]

\* the rows of a file: the games in order, game_id the line of the game
File(games) ==
    [i \in 1..Len(games) |->
        [game_id         |-> i,
         datetime        |-> games[i].datetime,
         seasonStartYear |-> games[i].seasonStartYear,
         homeTeam        |-> games[i].homeTeam,
         awayTeam        |-> games[i].awayTeam,
         pointsHome      |-> games[i].pointsHome,
         pointsAway      |-> games[i].pointsAway,
         Winner          |-> games[i].Winner,
         isRegular       |-> games[i].isRegular]]

\* every file of 1..n games drawn from U
FilesOver(U, n) == UNION {{File(g) : g \in [1..k -> U]} : k \in 1..n}

\* the three games of the worked example
Scenario ==
    File(<<Game(2020, "A", "B", 100, 90, 1, <<2020, 11, 1>>),
           Game(2020, "B", "A", 95, 99, 1, <<2020, 12, 1>>),
           Game(2021, "A", "B", 110, 108, 0, <<2022, 5, 1>>)>>)

\* games between A, B and C, one of them before 2000, one level, one
\* a playoff game without a date
SmallGames ==
    {Game(2000, "A", "B", 2, 1, 1, <<2000, 11, 5>>),
     Game(2000, "B", "A", 2, 1, 1, <<2000, 12, 24>>),
     Game(2000, "A", "B", 1, 3, 0, <<2001, 2, 30>>),
     Game(2001, "C", "A", 2, 1, 1, <<2001, 11, 5>>),
     Game(2001, "A", "C", 2, 2, 1, <<2002, 1, 9>>),
     Game(1999, "B", "C", 1, 2, 1, <<1999, 11, 5>>)}

SmallFiles == FilesOver(SmallGames, MaxRows) \cup {Scenario}

\* the files of the run of concurrent requests: three of the small games
ConcGames ==
    {Game(2000, "A", "B", 2, 1, 1, <<2000, 11, 5>>),
     Game(2001, "C", "A", 2, 1, 0, <<2001, 11, 5>>),
     Game(1999, "B", "C", 1, 2, 1, <<1999, 11, 5>>)}

ConcFiles == FilesOver(ConcGames, MaxRows) \cup {Scenario}

TeamName(i) == "T" \o ToString(i)

\* a league of n teams in season 2000: team i wins Max2(1, i - k) games,
\* so the k + 1 weakest teams are level on one win and all others differ;
\* each win is over the next team, at home and away in turn
LeagueGame(n, i, j) ==
    IF j % 2 = 1
    THEN Game(2000, TeamName(i), TeamName((i % n) + 1), 3, 1 + (j % 2),
              1, <<2000, 1 + (j % 12), 1 + (i % 28)>>)
    ELSE Game(2000, TeamName((i % n) + 1), TeamName(i), 1 + (j % 2), 3,
              1, <<2001, 1 + (j % 12), 1 + (i % 28)>>)

RECURSIVE LeagueFrom(_, _, _)
LeagueFrom(n, k, i) ==
    IF i > n THEN <<>>
    ELSE [j \in 1..Max2(1, i - k) |-> LeagueGame(n, i, j)]
         \o LeagueFrom(n, k, i + 1)

\* the league, then a game of 2001 and a game of 1999
League(n, k) ==
    File(LeagueFrom(n, k, 1)
         \o <<Game(2001, TeamName(1), TeamName(2), 1, 2, 0, <<2002, 4, 20>>),
              Game(1999, TeamName(2), TeamName(1), 1, 2, 1, <<1999, 12, 1>>)>>)

LeagueFiles == {League(n, k) : n \in (MaxTeams - 2)..MaxTeams, k \in 0..2}

\* n games between A and B whose totals rise (p = 1), fall (p = 2), are
\* all equal (p = 3) or repeat with period three (p = 4); the third game
\* has no valid date, and with p = 4 the first is of 1999
ScoreGame(n, p, i) ==
    LET ph == IF p = 1 THEN i + 1
              ELSE IF p = 2 THEN n + 2 - i
              ELSE IF p = 3 THEN i
              ELSE 2 + (i % 3)
        pa == IF p = 3 THEN n + 1 - i ELSE 1
    IN  Game(IF p = 4 /\ i = 1 THEN 1999 ELSE 2000 + (i % 2),
             IF i % 2 = 0 THEN "A" ELSE "B",
             IF i % 2 = 0 THEN "B" ELSE "A",
             ph, pa, i % 2,
             IF i = 3 THEN <<2000, 13, 1>> ELSE <<2001, 1 + (i % 12), i>>)

Scores(n, p) == File([i \in 1..n |-> ScoreGame(n, p, i)])

ScoreFiles == {Scores(n, p) : n \in (MaxGames - 2)..MaxGames, p \in 1..4}

\* one season after the other from 1999 on (p = 1, 2) or from the last
\* season back (p = 3); team A plays B at home in every season, and away
\* as well in every second one; with p = 2 it sits out every fourth
\* season, in which B plays C
HistoryYear(n, p, i) == IF p = 3 THEN 1999 + n - i ELSE 1998 + i

HistoryGames(n, p, i) ==
    LET y == HistoryYear(n, p, i)
    IN  IF p = 2 /\ y % 4 = 0
        THEN <<Game(y, "B", "C", 2, 1, 1, <<y, 11, 2>>)>>
        ELSE <<Game(y, "A", "B", 2 + (y % 2), 2, 1, <<y, 11, 2>>)>>
             \o (IF y % 2 = 0
                 THEN <<Game(y, "C", "A", 1 + (y % 3), 2, 0, <<y + 1, 4, 31>>)>>
                 ELSE <<>>)

RECURSIVE HistoryFrom(_, _, _)
HistoryFrom(n, p, i) ==
    IF i > n THEN <<>>
    ELSE HistoryGames(n, p, i) \o HistoryFrom(n, p, i + 1)

History(n, p) == File(HistoryFrom(n, p, 1))

HistoryFiles == {History(n, p) : n \in (MaxSeasons - 2)..MaxSeasons, p \in 1..3}

-----------------------------------------------------------------------------
(* Files whose quotients lie halfway between two tenths *)

\* 80 games of one season, the home team A winning 23: 23/80*100 is 28.75
HalfRate ==
    File([i \in 1..80 |->
             IF i <= 23 THEN Game(2000, "A", "B", 2, 1, 1, <<2000, 11, 2>>)
             ELSE Game(2000, "A", "B", 1, 2, 1, <<2000, 11, 2>>)])

\* 12 games of A, 2 points in its one home game and 25 in its 11 away
\* games: 27/12 is 2.25
HalfAverage ==
    File([i \in 1..12 |->
             IF i = 1 THEN Game(2000, "A", "B", 2, 1, 1, <<2000, 11, 2>>)
             ELSE Game(2000, "B", "A", 1, IF i <= 4 THEN 3 ELSE 2, 1,
                       <<2000, 11, 2>>)])

\* 20 regular games, the home team scoring 7 points in all: 7/20 is 0.35
HalfMean ==
    File([i \in 1..20 |->
             Game(2000, "A", "B", IF i <= 7 THEN 1 ELSE 0, 2, 1, <<2000, 11, 2>>)])

RoundingFiles == {HalfRate, HalfAverage, HalfMean}

-----------------------------------------------------------------------------
(* Requests *)

Routes ==
    {"overview", "season-trend", "team-rankings", "high-scoring",
     "team-detail", "playoffs-vs-regular"}

Request(route, season, team) ==
    [route |-> route, season |-> season, team |-> team]

\* the season parameters tried: none, 0, a negative one, every season of
\* the file and the one after its last
SeasonArgs ==
    LET ys == Range(Col(csv, "seasonStartYear"))
    IN  {<<>>, <<0>>, <<-1>>} \cup {<<y>> : y \in ys \cup {Max(ys) + 1}}

\* the team parameters tried: every team of the file and one it has not
TeamArgs ==
    Range(Col(csv, "homeTeam")) \cup Range(Col(csv, "awayTeam")) \cup {"Z"}

Requests(route) ==
    IF route = "team-rankings" THEN {Request(route, y, "") : y \in SeasonArgs}
    ELSE IF route = "team-detail" THEN {Request(route, <<>>, t) : t \in TeamArgs}
    ELSE {Request(route, <<>>, "")}

NoResponse == [request |-> Request("", <<>>, ""), body |-> <<>>]

-----------------------------------------------------------------------------
(* The server *)

InitOn(files) ==
    /\ csv \in files
    /\ df = LoadData(csv)
    /\ pending = {}
    /\ resp = NoResponse

\* a request is accepted
Receive(route) ==
    /\ Cardinality(pending) < MaxInFlight
    /\ \E q \in Requests(route) \ pending : pending' = pending \cup {q}
    /\ UNCHANGED <<csv, df, resp>>

Serve(q, body) ==
    /\ resp' = [request |-> q, body |-> body]
    /\ pending' = pending \ {q}

GetOverview ==
    \E q \in pending :
        /\ q.route = "overview"
        /\ Serve(q, Overview(df))
        /\ UNCHANGED <<csv, df>>

GetSeasonTrend ==
    \E q \in pending :
        /\ q.route = "season-trend"
        /\ Serve(q, SeasonTrend(df))
        /\ UNCHANGED <<csv, df>>

\* GetTeamRankings filtering the shared table itself instead of its copy
GetTeamRankingsInPlace ==
    \E q \in pending :
        /\ q.route = "team-rankings"
        /\ \E order \in ValueCountsOrders(Restrict(df, q.season)) :
               Serve(q, TeamRankings(df, q.season, order))
        /\ df' = Restrict(df, q.season)
        /\ UNCHANGED csv

GetTeamRankings ==
    \E q \in pending :
        /\ q.route = "team-rankings"
        /\ \E order \in ValueCountsOrders(Restrict(df, q.season)) :
               Serve(q, TeamRankings(df, q.season, order))
        /\ UNCHANGED <<csv, df>>

GetHighScoringGames ==
    \E q \in pending :
        /\ q.route = "high-scoring"
        /\ Serve(q, HighScoring(df))
        /\ UNCHANGED <<csv, df>>

GetTeamDetail ==
    \E q \in pending :
        /\ q.route = "team-detail"
        /\ Serve(q, TeamDetail(df, q.team))
        /\ UNCHANGED <<csv, df>>

GetPlayoffsVsRegular ==
    \E q \in pending :
        /\ q.route = "playoffs-vs-regular"
        /\ Serve(q, PlayoffsVsRegular(df))
        /\ UNCHANGED <<csv, df>>

Init == InitOn(ConcFiles \cup RoundingFiles)

Next ==
    \/ \E route \in Routes : Receive(route)
    \/ GetOverview
    \/ GetSeasonTrend
    \/ GetTeamRankings
    \/ GetHighScoringGames
    \/ GetTeamDetail
    \/ GetPlayoffsVsRegular

Spec == Init /\ [][Next]_vars

-----------------------------------------------------------------------------
(* Each query on its own: the files that exercise it, its requests and    *)
(* its handler.                                                            *)

InitRankings == InitOn(SmallFiles \cup LeagueFiles \cup RoundingFiles)

NextRankings == Receive("team-rankings") \/ GetTeamRankings

SpecRankings == InitRankings /\ [][NextRankings]_vars

InitHighScoring == InitOn(SmallFiles \cup ScoreFiles)

NextHighScoring == Receive("high-scoring") \/ GetHighScoringGames

SpecHighScoring == InitHighScoring /\ [][NextHighScoring]_vars

InitTeamDetail == InitOn(SmallFiles \cup HistoryFiles \cup RoundingFiles)

NextTeamDetail == Receive("team-detail") \/ GetTeamDetail

SpecTeamDetail == InitTeamDetail /\ [][NextTeamDetail]_vars

InitPlayoffs == InitOn(SmallFiles \cup RoundingFiles)

NextPlayoffs == Receive("playoffs-vs-regular") \/ GetPlayoffsVsRegular

SpecPlayoffs == InitPlayoffs /\ [][NextPlayoffs]_vars

-----------------------------------------------------------------------------
(* What the claims speak of, counted from the table directly *)

Served(route) == resp.request.route = route

\* the games of d that team won, by the Winner column
WinsIn(d, team) == Cardinality({i \in 1..Len(d) : d[i].Winner = team})

\* the games of d that team played
PlaysIn(d, team) ==
    Cardinality({i \in 1..Len(d) : d[i].homeTeam = team \/ d[i].awayTeam = team})

\* the games of d that team won, by the points
BeatsIn(d, team) ==
    Cardinality({i \in 1..Len(d) :
        \/ d[i].homeTeam = team /\ d[i].pointsHome > d[i].pointsAway
        \/ d[i].awayTeam = team /\ d[i].pointsAway > d[i].pointsHome})

\* the points team scored in the games of d
RECURSIVE PointsIn(_, _)
PointsIn(d, team) ==
    IF d = <<>> THEN 0
    ELSE (IF Head(d).homeTeam = team THEN Head(d).pointsHome ELSE 0)
         + (IF Head(d).awayTeam = team THEN Head(d).pointsAway ELSE 0)
         + PointsIn(Tail(d), team)

\* the seasons of d in which team played
PlayedSeasons(d, team) ==
    {d[i].seasonStartYear : i \in {j \in 1..Len(d) :
        d[j].homeTeam = team \/ d[j].awayTeam = team}}

\* the games of d of season y
OfSeason(d, y) == SelectSeq(d, LAMBDA r : r.seasonStartYear = y)

\* how often v occurs in s
Occurs(s, v) == Cardinality({i \in 1..Len(s) : s[i] = v})

\* the file with lines i and j exchanged
Swap(f, i, j) ==
    [k \in 1..Len(f) |-> IF k = i THEN f[j] ELSE IF k = j THEN f[i] ELSE f[k]]

\* the same games in another order (every order is a chain of exchanges)
Reorderings(f) == {Swap(f, i, j) : i, j \in 1..Len(f)}

\* what a request can be answered with on table d
Answers(q, d) ==
    IF q.route = "overview" THEN {Overview(d)}
    ELSE IF q.route = "season-trend" THEN {SeasonTrend(d)}
    ELSE IF q.route = "team-rankings"
         THEN {TeamRankings(d, q.season, o) :
                  o \in ValueCountsOrders(Restrict(d, q.season))}
    ELSE IF q.route = "high-scoring" THEN {HighScoring(d)}
    ELSE IF q.route = "team-detail" THEN {TeamDetail(d, q.team)}
    ELSE {PlayoffsVsRegular(d)}

-----------------------------------------------------------------------------
(* C1 *)

\* C1: a ranking has at most 15 rows, its wins never rise down the list,
\* and every row has games >= wins, wins being the games of the ranked
\* records its team won and games the ranked records its team played in.
C1_RankingBounded ==
    Served("team-rankings") =>
        LET rows == resp.body.rankings
            data == Restrict(df, resp.request.season)
        IN  /\ Len(rows) <= 15
            /\ \A i \in 1..Len(rows) - 1 : rows[i].wins >= rows[i + 1].wins
            /\ \A i \in 1..Len(rows) :
                  /\ rows[i].games >= rows[i].wins
                  /\ rows[i].wins = WinsIn(data, rows[i].team)
                  /\ rows[i].games = PlaysIn(data, rows[i].team)

\* a ranking of 15 rows served when more than 15 teams had won a game
C1_Witness ==
    /\ Served("team-rankings")
    /\ Len(resp.body.rankings) = 15
    /\ Cardinality(DOMAIN WinCounts(Restrict(df, resp.request.season))) > 15

-----------------------------------------------------------------------------
(* C2 *)

\* C2: with a season filter that no record of the table has (0 and
\* negative values included) the ranking is empty, and with any filter
\* only the records of that season count towards wins and games.
C2_FilterRestricts ==
    Served("team-rankings") /\ resp.request.season # <<>> =>
        LET rows == resp.body.rankings
            data == OfSeason(df, resp.request.season[1])
        IN  /\ data = <<>> => rows = <<>>
            /\ \A i \in 1..Len(rows) :
                  /\ rows[i].wins = WinsIn(data, rows[i].team)
                  /\ rows[i].games = PlaysIn(data, rows[i].team)

-----------------------------------------------------------------------------
(* C3 *)

\* C3: on the three games of the worked example the unfiltered
\* ranking has a row A 3/3/100.0 and a row B 0/3/0.0.
C3_ScenarioBothTeams ==
    csv = Scenario /\ Served("team-rankings") /\ resp.request.season = <<>> =>
        /\ [team |-> "A", wins |-> 3, games |-> 3, win_rate |-> "100.0"]
               \in Range(resp.body.rankings)
        /\ [team |-> "B", wins |-> 0, games |-> 3, win_rate |-> "0.0"]
               \in Range(resp.body.rankings)

-----------------------------------------------------------------------------
(* C4 *)

\* the quotient n/d written with one decimal: the tenth nearest to it, and
\* either neighbour when it lies halfway between two
NearTenths(n, d) ==
    LET q == (10 * n) \div d
    IN  {Tenths(t) : t \in {u \in {q, q + 1} :
                               2 * u * d - 20 * n <= d /\ 20 * n - 2 * u * d <= d}}

\* C4: the season rows of a team are the 10 largest seasons it played in
\* (all of them when fewer), in ascending order, each with the team's wins
\* and games of that season and win_rate = wins/games*100 to one decimal.
C4_LastTenPlayedSeasons ==
    Served("team-detail") =>
        LET rows   == resp.body.seasons
            team   == resp.request.team
            played == Sorted(PlayedSeasons(df, team))
            last   == SubSeq(played, Max2(1, Len(played) - 9), Len(played))
        IN  /\ Len(rows) <= 10
            /\ [i \in 1..Len(rows) |-> rows[i].season] = last
            /\ \A i \in 1..Len(rows) :
                  LET g == OfSeason(df, rows[i].season)
                  IN  /\ rows[i].games > 0
                      /\ rows[i].games = PlaysIn(g, team)
                      /\ rows[i].wins = BeatsIn(g, team)
                      /\ rows[i].win_rate
                             \in NearTenths(100 * rows[i].wins, rows[i].games)

\* ten rows served for a team that played in more than ten seasons and
\* sat out a season of the table
C4_Witness ==
    /\ Served("team-detail")
    /\ Len(resp.body.seasons) = 10
    /\ Cardinality(PlayedSeasons(df, resp.request.team)) > 10
    /\ Cardinality(Range(Col(df, "seasonStartYear")))
           > Cardinality(PlayedSeasons(df, resp.request.team))

-----------------------------------------------------------------------------
(* C5 *)

\* C5: for a team with at least one game, all at home or all away
\* included, the average points are a number: all its points over all its
\* games.
C5_AvgPointsWeightedMean ==
    Served("team-detail") /\ PlaysIn(df, resp.request.team) > 0 =>
        /\ resp.body.avg_points # "nan"
        /\ resp.body.avg_points
               \in NearTenths(PointsIn(df, resp.request.team),
                             PlaysIn(df, resp.request.team))

-----------------------------------------------------------------------------
(* C6 *)

\* C6: for a team of no record the detail is the zero result: no wins, no
\* games, win rate 0, average points a number, no season rows.
C6_UnknownTeamZeroResult ==
    Served("team-detail") /\ PlaysIn(df, resp.request.team) = 0 =>
        /\ resp.body.total_wins = 0
        /\ resp.body.total_games = 0
        /\ resp.body.win_rate = "0.0"
        /\ resp.body.avg_points # "nan"
        /\ resp.body.seasons = <<>>

-----------------------------------------------------------------------------
(* C7 *)

\* C7: the high-scoring list has min(10, records) rows, each a record of
\* the table, none used more often than the table has it, each total the
\* sum of its points, totals never rising, and no record left out with a
\* total above the last row's.
C7_TopTenByTotal ==
    Served("high-scoring") =>
        LET rows == resp.body.games
            all  == [i \in 1..Len(df) |-> GameRow(df[i])]
        IN  /\ Len(rows) = (IF Len(df) < 10 THEN Len(df) ELSE 10)
            /\ \A i \in 1..Len(rows) :
                  /\ Occurs(rows, rows[i]) <= Occurs(all, rows[i])
                  /\ rows[i].total = rows[i].home_points + rows[i].away_points
            /\ \A i \in 1..Len(rows) - 1 : rows[i].total >= rows[i + 1].total
            /\ \A j \in 1..Len(all) :
                  Occurs(rows, all[j]) < Occurs(all, all[j]) =>
                      all[j].total <= rows[Len(rows)].total

\* ten rows served from a table of more than ten games, one of the games
\* left out level with the last row
C7_Witness ==
    /\ Served("high-scoring")
    /\ Len(df) > 10
    /\ Len(resp.body.games) = 10
    /\ \E j \in 1..Len(df) :
          /\ GameRow(df[j]) \notin Range(resp.body.games)
          /\ df[j].totalPoints = resp.body.games[10].total

-----------------------------------------------------------------------------
(* C8 *)

\* C8: whatever requests are in flight and in whatever order they are
\* served, the table stays the one built at load time and every response
\* is one the query gives on that table when run alone.
C8_ReadOnlySharing ==
    /\ df = LoadData(csv)
    /\ resp # NoResponse => resp.body \in Answers(resp.request, LoadData(csv))

\* a filtered ranking was served while two other requests were in flight
C8_Witness ==
    /\ Served("team-rankings")
    /\ Truthy(resp.request.season)
    /\ Len(Restrict(df, resp.request.season)) < Len(df)
    /\ Cardinality(pending) >= 2

-----------------------------------------------------------------------------
(* C9 *)

\* C9: an empty partition, regular or playoffs, reports the home win rate
\* 0, and the games of the two partitions add up to all records.
C9_EmptyPartitionGuarded ==
    Served("playoffs-vs-regular") =>
        LET st == resp.body.stats
        IN  /\ st.regular.games = 0 => st.regular.home_win_rate = "0.0"
            /\ st.playoffs.games = 0 => st.playoffs.home_win_rate = "0.0"
            /\ st.regular.games + st.playoffs.games = Len(df)

-----------------------------------------------------------------------------
(* C10 *)

\* C10: the ranking and the high-scoring list are the same for the same
\* games in any other order in the file.
C10_OrderIrrelevant ==
    /\ Served("high-scoring") =>
          \A f \in Reorderings(csv) : HighScoring(LoadData(f)) = resp.body
    /\ Served("team-rankings") =>
          \A f \in Reorderings(csv) :
              Answers(resp.request, LoadData(f)) = {resp.body}

=============================================================================
